---------------------------- MODULE Spec2Model ----------------------------
(***************************************************************************)
(* QuantifyMe: the record store (app/persistence), the score engine        *)
(* (app/services/score_engine.py) and their callers as a state machine.    *)
(*                                                                         *)
(* The table `records` is the committed content of the SQLite table       *)
(* "records".  Every repository method opens a session (get_session),     *)
(* runs its statements and commits on exit.  One SQL statement is one      *)
(* atomic step; a method that issues several statements is several steps,  *)
(* so that two sessions interleave between statements.  A session that has *)
(* flushed a write holds the writer lock of the database until it commits; *)
(* what it wrote is in `dirty` and is published by Commit.                 *)
(***************************************************************************)
EXTENDS Integers, Sequences, FiniteSets, TLC

\* --------------------------------------------------------------- bounds
MaxDay == 2          \* calendar days are 1..MaxDay
MaxNow == 2          \* the storage clock stops here: at most MaxNow INSERTs
MaxN   == 2          \* last_n is called with n in 0..MaxN

Procs == {1, 2}      \* concurrent sessions
Users == {1, 2}      \* opaque user ids
Days  == 1..MaxDay
RaceUsers == {1}     \* two sessions race on one key
RaceDays  == {1}
WeekDays  == {1, 2, 8, 9}   \* days around the ends of the week 2..8

None == "None"       \* Python's None / SQL NULL, as a column value
NoRow == [id |-> 0]  \* Python's None where a Record is expected (ids start at 1)
NoDate == 0          \* Python's None where a date is expected (days start at 1)

\* --------------------------------------------------------------- data
\* Keyword arguments the callers pass, as the repository tests pass them;
\* values are in tenths (50 is 5.0).  KwPlain passes no interpretation.
KwFirst  == [humeur |-> 50, sommeil |-> 70, stress |-> 30, concentration |-> 60,
             scj |-> 48, interpretation |-> None]
KwBetter == [humeur |-> 60, sommeil |-> 70, stress |-> 20, concentration |-> 70,
             scj |-> 64, interpretation |-> "Mieux"]
KwPlain  == [humeur |-> 60, sommeil |-> 70, stress |-> 30, concentration |-> 60,
             scj |-> 52]
Kwargs == {KwFirst, KwBetter, KwPlain}
\* A day whose score is clamped to 0.
KwWorst  == [humeur |-> 0, sommeil |-> 0, stress |-> 100, concentration |-> 0,
             scj |-> 0]

\* Record(user_id=..., date=..., **fields): columns not passed are NULL.
Record(id, user_id, day, fields, created) ==
    [id |-> id, user_id |-> user_id, date |-> day,
     humeur         |-> IF "humeur" \in DOMAIN fields THEN fields.humeur ELSE None,
     sommeil        |-> IF "sommeil" \in DOMAIN fields THEN fields.sommeil ELSE None,
     stress         |-> IF "stress" \in DOMAIN fields THEN fields.stress ELSE None,
     concentration  |-> IF "concentration" \in DOMAIN fields THEN fields.concentration ELSE None,
     scj            |-> IF "scj" \in DOMAIN fields THEN fields.scj ELSE None,
     interpretation |-> IF "interpretation" \in DOMAIN fields THEN fields.interpretation ELSE None,
     created_at     |-> created]

\* --------------------------------------------------------------- dates
\* The Python values callers pass as a date.  A day of the model is a day
\* of 2025, numbered from 1 (January 1); a date object holds that number.
PyNone == [type |-> "NoneType"]
PyDate(n) == [type |-> "date", ord |-> n]
PyDateTime(n, hour) == [type |-> "datetime", ord |-> n, hour |-> hour]
PyStr(chars) == [type |-> "str", chars |-> chars]
PyInt(v) == [type |-> "int", value |-> v]

Digits == <<"0", "1", "2", "3", "4", "5", "6", "7", "8", "9">>
IsDigit(c) == \E i \in 1..10 : Digits[i] = c
DigitValue(c) == (CHOOSE i \in 1..10 : Digits[i] = c) - 1

\* The calendar of datetime.date.
IsLeap(y) == (y % 4) = 0 /\ ((y % 100) # 0 \/ (y % 400) = 0)
DaysInMonth(y, m) ==
    IF m = 2 THEN (IF IsLeap(y) THEN 29 ELSE 28)
    ELSE IF m \in {4, 6, 9, 11} THEN 30 ELSE 31
RECURSIVE DaysBeforeMonth(_, _)
DaysBeforeMonth(y, m) ==
    IF m = 1 THEN 0 ELSE DaysBeforeMonth(y, m - 1) + DaysInMonth(y, m - 1)
DaysBeforeYear(y) ==
    ((y - 1) * 365) + ((y - 1) \div 4) - ((y - 1) \div 100) + ((y - 1) \div 400)
\* The number of the day year-month-day, counted from 2025-01-01.
ToOrdinal(y, m, d) == DaysBeforeYear(y) - DaysBeforeYear(2025) + DaysBeforeMonth(y, m) + d

\* date.isoformat() of day n of 2025, the text callers pass: YYYY-MM-DD.
Pad2(v) == <<Digits[(v \div 10) + 1], Digits[(v % 10) + 1]>>
IsoFormat(n) ==
    LET m == CHOOSE k \in 1..12 : /\ DaysBeforeMonth(2025, k) < n
                                  /\ n <= DaysBeforeMonth(2025, k) + DaysInMonth(2025, k)
    IN <<"2", "0", "2", "5", "-">> \o Pad2(m) \o <<"-">> \o Pad2(n - DaysBeforeMonth(2025, m))

\* Mutant of FromIsoFormat: the text is read as YYYY-DD-MM.
FromIsoFormatDayFirst(chars) ==
    IF /\ Len(chars) = 10
       /\ chars[5] = "-" /\ chars[8] = "-"
       /\ \A i \in {1, 2, 3, 4, 6, 7, 9, 10} : IsDigit(chars[i])
    THEN LET y == DigitValue(chars[1]) * 1000 + DigitValue(chars[2]) * 100
                  + DigitValue(chars[3]) * 10 + DigitValue(chars[4])
             d == DigitValue(chars[6]) * 10 + DigitValue(chars[7])
             m == DigitValue(chars[9]) * 10 + DigitValue(chars[10])
         IN IF y >= 1 /\ m \in 1..12 /\ d >= 1 /\ d <= DaysInMonth(y, m)
              THEN [kind |-> "ok", value |-> PyDate(ToOrdinal(y, m, d))]
              ELSE [kind |-> "raise", exc |-> "ValueError"]
    ELSE [kind |-> "raise", exc |-> "ValueError"]

\* date.fromisoformat(text), for a text of the form YYYY-MM-DD or of no
\* ISO-8601 form at all: the date, or ValueError.
FromIsoFormat(chars) ==
    IF /\ Len(chars) = 10
       /\ chars[5] = "-" /\ chars[8] = "-"
       /\ \A i \in {1, 2, 3, 4, 6, 7, 9, 10} : IsDigit(chars[i])
    THEN LET y == DigitValue(chars[1]) * 1000 + DigitValue(chars[2]) * 100
                  + DigitValue(chars[3]) * 10 + DigitValue(chars[4])
             m == DigitValue(chars[6]) * 10 + DigitValue(chars[7])
             d == DigitValue(chars[9]) * 10 + DigitValue(chars[10])
         IN IF y >= 1 /\ m \in 1..12 /\ d >= 1 /\ d <= DaysInMonth(y, m)
              THEN [kind |-> "ok", value |-> PyDate(ToOrdinal(y, m, d))]
              ELSE [kind |-> "raise", exc |-> "ValueError"]
    ELSE [kind |-> "raise", exc |-> "ValueError"]

\* _normalize_date, lines 8-15.
NormalizeDate(d) ==
    IF d.type = "datetime" THEN [kind |-> "ok", value |-> PyDate(d.ord)]
    ELSE IF d.type = "date" THEN [kind |-> "ok", value |-> d]
    ELSE IF d.type = "str" THEN FromIsoFormat(d.chars)
    ELSE [kind |-> "raise", exc |-> "TypeError"]

\* bool(d): None, 0 and the empty string are false.
Truthy(d) ==
    /\ d.type # "NoneType"
    /\ d.type = "int" => d.value # 0
    /\ d.type = "str" => d.chars # <<>>

\* The day a normalization gave, NoDate if it raised.
DayOf(day) == IF day.kind = "ok" THEN day.value.ord ELSE NoDate

\* An optional bound of get_range: None is no bound (NoDate).
Bound(d) ==
    IF d.type = "NoneType" THEN [kind |-> "ok", value |-> PyDate(NoDate)]
    ELSE NormalizeDate(d)

\* The forms in which callers pass day n, and dates that are malformed.
DateForms(n) == {PyDate(n), PyDateTime(n, 10), PyStr(IsoFormat(n))}
Malformed == {PyInt(0), PyInt(20250101), PyStr(<<>>),
              PyStr(<<"h", "i", "e", "r">>),
              PyStr(<<"2", "0", "2", "5", "-", "1", "3", "-", "0", "1">>)}

\* --------------------------------------------------------------- state
VARIABLES
    records,   \* committed rows of table "records"
    dirty,     \* the table as the session holding the writer lock sees it
    lock,      \* the session holding the writer lock, 0 when free
    now,       \* storage clock, read by func.now() at INSERT
    pc,        \* pc[p]: where session p stands in its method ("idle": in none)
    call,      \* call[p]: the method p runs and its normalized arguments
    rec,       \* rec[p]: the ORM object p loaded or created (NoRow if none)
    out,       \* the call the last step completed: who called what, and what
               \* came back; NoOut when the last step completed no call
    users,     \* committed rows of table "users"
    udirty,    \* table "users" as the session holding the writer lock sees it
    dicts,     \* the dict objects that outlive a call of compute_scj: the
               \* module's DEFAULT_WEIGHTS and the mapping the caller passed
    kept       \* a result of compute_scj its caller kept, with its call

vars == <<records, dirty, lock, now, pc, call, rec, out, users, udirty, dicts, kept>>

\* What a method of RecordRepository leaves alone.
accounts == <<users, udirty>>
engine == <<dicts, kept>>

NoCall == [op |-> "none"]
Ok(v)      == [kind |-> "ok", value |-> v]
Raise(exc) == [kind |-> "raise", exc |-> exc]
NoOut  == [proc |-> 0, call |-> NoCall, ret |-> Ok(None)]

\* Method c of session p ends with r: the session is back outside any method.
Return(p, c, r) ==
    /\ out' = [proc |-> p, call |-> c, ret |-> r]
    /\ pc' = [pc EXCEPT ![p] = "idle"]
    /\ call' = [call EXCEPT ![p] = NoCall]
    /\ rec' = [rec EXCEPT ![p] = NoRow]

\* Method c of session p goes on at `at`, holding ORM object r.
Goto(p, c, at, r) ==
    /\ pc' = [pc EXCEPT ![p] = at]
    /\ call' = [call EXCEPT ![p] = c]
    /\ rec' = [rec EXCEPT ![p] = r]
    /\ out' = NoOut

\* --------------------------------------------------------------- SQL
Max(S) == CHOOSE x \in S : \A y \in S : y <= x

\* INTEGER PRIMARY KEY on SQLite: the next rowid is the largest one plus one.
NextId(table) == IF table = {} THEN 1 ELSE Max({r.id : r \in table}) + 1

\* WHERE user_id = :u AND date = :d
Matching(table, u, d) == {r \in table : r.user_id = u /\ r.date = d}

\* Mutant of Scalar: the query was written with limit(0) and finds nothing.
ScalarLimitZero(rows) == NoRow

\* s.scalar(select(...).limit(1)): the first row, or None.
Scalar(rows) == IF rows = {} THEN NoRow ELSE CHOOSE r \in rows : TRUE

\* Mutant of UniqueViolation: the table was declared without uq_user_day.
NoUniqueConstraint(table, u, d) == FALSE

\* UniqueConstraint("user_id", "date"): would inserting (u, d) violate it?
UniqueViolation(table, u, d) == Matching(table, u, d) # {}

\* Mutant of Visible: sessions read uncommitted data.
ReadUncommitted(p) == dirty

\* What a statement of session p reads: its own uncommitted writes if it
\* holds the writer lock, the committed table otherwise.
Visible(p) == IF lock = p THEN dirty ELSE records

\* Mutant of Changed: the annotation is left out of the UPDATE.
ChangedMetricsOnly(r, fields) ==
    {k \in DOMAIN fields \ {"interpretation"} : fields[k] # r[k]}

\* The columns the unit of work puts in the UPDATE: those whose new value
\* differs from the value loaded.
Changed(r, fields) == {k \in DOMAIN fields : fields[k] # r[k]}

\* for k, v in fields.items(): setattr(rec, k, v)
SetAttrs(r, fields) == [k \in DOMAIN r |-> IF k \in DOMAIN fields THEN fields[k] ELSE r[k]]

\* UPDATE records SET <cols> WHERE id = :id, applied to the row stored.
UpdateRow(row, cols, fields) == [k \in DOMAIN row |-> IF k \in cols THEN fields[k] ELSE row[k]]

\* Kept with a call: `found`, whether its SELECT found a row (the branch
\* the method took); `flushes`, how many flushes it has tried; `again`,
\* whether it repeats, with the same arguments, the upsert the same session
\* has just completed successfully.
Repeats(p, u, d, fields) ==
    /\ out.proc = p
    /\ out.call.op = "upsert"
    /\ out.ret.kind = "ok"
    /\ out.call.user_id = u /\ out.call.date = d /\ out.call.fields = fields

Flushed(c) == [c EXCEPT !.flushes = c.flushes + 1]

\* --------------------------------------------------------------- add
\* Mutant of AddSelect: add does not look for an existing record.
AddSelectUnchecked(p, u, date, fields) ==
    /\ pc[p] = "idle"
    /\ LET day == NormalizeDate(date)
           c == [op |-> "add", user_id |-> u, arg |-> date, date |-> DayOf(day),
                 fields |-> fields, found |-> FALSE, flushes |-> 0, again |-> FALSE]
       IN IF day.kind = "raise"
            THEN Return(p, c, day)
            ELSE now < MaxNow /\ Goto(p, c, "insert", NoRow)
    /\ UNCHANGED <<records, dirty, lock, now>>
    /\ UNCHANGED <<accounts, engine>>

\* add, lines 19-23: normalize, SELECT id, raise ValueError if present.
AddSelect(p, u, date, fields) ==
    /\ pc[p] = "idle"
    /\ LET day == NormalizeDate(date)
           c == [op |-> "add", user_id |-> u, arg |-> date, date |-> DayOf(day),
                 fields |-> fields,
                 found |-> Matching(Visible(p), u, DayOf(day)) # {},
                 flushes |-> 0, again |-> FALSE]
       IN IF day.kind = "raise"
            THEN Return(p, c, day)
            ELSE IF c.found
                   THEN Return(p, c, Raise("ValueError"))
                   ELSE now < MaxNow /\ Goto(p, c, "insert", NoRow)
    /\ UNCHANGED <<records, dirty, lock, now>>
    /\ UNCHANGED <<accounts, engine>>

\* --------------------------------------------------------------- upsert
\* upsert, lines 29-32: normalize, SELECT the row, branch on it.
UpsertSelect(p, u, date, fields) ==
    /\ pc[p] = "idle"
    /\ LET day == NormalizeDate(date)
           found == Scalar(Matching(Visible(p), u, DayOf(day)))
           c == [op |-> "upsert", user_id |-> u, arg |-> date, date |-> DayOf(day),
                 fields |-> fields, found |-> found.id # 0,
                 flushes |-> 0, again |-> Repeats(p, u, DayOf(day), fields)]
       IN IF day.kind = "raise"
            THEN Return(p, c, day)
            ELSE IF c.found
                   THEN Goto(p, c, "update", found)
                   ELSE now < MaxNow /\ Goto(p, c, "insert", NoRow)
    /\ UNCHANGED <<records, dirty, lock, now>>
    /\ UNCHANGED <<accounts, engine>>

\* upsert, lines 33-35 (setattr, flush): the UPDATE by primary key.  Nothing
\* is sent when no column changed; StaleDataError when the row is gone.
Update(p) ==
    /\ pc[p] = "update"
    /\ LET cols == Changed(rec[p], call[p].fields)
           rows == {r \in records : r.id = rec[p].id}
       IN IF cols = {}
            THEN /\ Goto(p, call[p], "refresh", rec[p])
                 /\ UNCHANGED <<dirty, lock>>
            ELSE /\ lock = 0
                 /\ IF rows = {}
                      THEN /\ Return(p, Flushed(call[p]), Raise("StaleDataError"))
                           /\ UNCHANGED <<dirty, lock>>
                      ELSE /\ dirty' = {IF r.id = rec[p].id
                                          THEN UpdateRow(r, cols, call[p].fields)
                                          ELSE r : r \in records}
                           /\ lock' = p
                           /\ Goto(p, Flushed(call[p]), "refresh",
                                   SetAttrs(rec[p], call[p].fields))
    /\ UNCHANGED <<records, now>>
    /\ UNCHANGED <<accounts, engine>>

\* ------------------------------------------------- add and upsert: INSERT
\* Record(...); s.add(r); s.flush(): the INSERT, checked against the
\* unique constraint, takes the writer lock.
Insert(p) ==
    /\ pc[p] = "insert"
    /\ lock = 0
    /\ IF UniqueViolation(records, call[p].user_id, call[p].date)
         THEN /\ Return(p, Flushed(call[p]), Raise("IntegrityError"))
              /\ UNCHANGED <<dirty, lock, now>>
         ELSE /\ now < MaxNow
              /\ LET r == Record(NextId(records), call[p].user_id, call[p].date,
                                 call[p].fields, now)
                 IN /\ dirty' = records \cup {r}
                    /\ Goto(p, Flushed(call[p]), "refresh", r)
              /\ lock' = p
              /\ now' = now + 1
    /\ UNCHANGED records
    /\ UNCHANGED <<accounts, engine>>

\* A flush that finds the database locked by another session gives up when
\* the driver's busy timeout expires: OperationalError, rolled back.
FlushLocked(p) ==
    /\ pc[p] \in {"insert", "update", "delete"}
    /\ pc[p] = "update" => Changed(rec[p], call[p].fields) # {}
    /\ lock \notin {0, p}
    /\ Return(p, Flushed(call[p]), Raise("OperationalError"))
    /\ UNCHANGED <<records, dirty, lock, now>>
    /\ UNCHANGED <<accounts, engine>>

\* s.refresh(r): reload the row by primary key; InvalidRequestError when
\* no row has that id any more.
Refresh(p) ==
    /\ pc[p] = "refresh"
    /\ LET rows == {r \in Visible(p) : r.id = rec[p].id}
       IN IF rows = {}
            THEN Return(p, call[p], Raise("InvalidRequestError"))
            ELSE Goto(p, call[p], "commit", CHOOSE r \in rows : TRUE)
    /\ UNCHANGED <<records, dirty, lock, now>>
    /\ UNCHANGED <<accounts, engine>>

\* get_session, lines 25-26: s.commit() on leaving the with block publishes
\* the session's writes and releases the writer lock; the method returns
\* the expunged object.
Commit(p) ==
    /\ pc[p] = "commit"
    /\ IF lock = p
         THEN /\ records' = dirty
              /\ lock' = 0
              /\ UNCHANGED dirty
         ELSE UNCHANGED <<records, dirty, lock>>
    /\ Return(p, call[p], Ok(rec[p]))
    /\ UNCHANGED now
    /\ UNCHANGED <<accounts, engine>>

\* --------------------------------------------------------------- delete
\* delete, lines 63-67: normalize, SELECT the row, False if there is none.
DeleteSelect(p, u, date) ==
    /\ pc[p] = "idle"
    /\ LET day == NormalizeDate(date)
           found == Scalar(Matching(Visible(p), u, DayOf(day)))
           c == [op |-> "delete", user_id |-> u, arg |-> date, date |-> DayOf(day),
                 found |-> found.id # 0, flushes |-> 0]
       IN IF day.kind = "raise"
            THEN Return(p, c, day)
            ELSE IF ~c.found
                   THEN Return(p, c, Ok(FALSE))
                   ELSE Goto(p, c, "delete", found)
    /\ UNCHANGED <<records, dirty, lock, now>>
    /\ UNCHANGED <<accounts, engine>>

\* Mutant of DeleteCommit: True is returned but the DELETE is never sent.
DeleteNotFlushed(p) ==
    /\ pc[p] = "delete"
    /\ lock = 0
    /\ Return(p, Flushed(call[p]), Ok(TRUE))
    /\ UNCHANGED <<records, dirty, lock, now>>
    /\ UNCHANGED <<accounts, engine>>

\* delete, lines 68-69: s.delete(rec); return True; the DELETE by primary
\* key is flushed and committed by get_session on exit.  A DELETE that
\* matches no row is only a warning.
DeleteCommit(p) ==
    /\ pc[p] = "delete"
    /\ lock = 0
    /\ records' = {r \in records : r.id # rec[p].id}
    /\ dirty' = records'
    /\ Return(p, Flushed(call[p]), Ok(TRUE))
    /\ UNCHANGED <<lock, now>>
    /\ UNCHANGED <<accounts, engine>>

\* --------------------------------------------------------------- reads
\* ORDER BY date ASC / DESC, as the rows come out of the engine.
RECURSIVE OrderByDate(_, _)
OrderByDate(rows, asc) ==
    IF rows = {} THEN <<>>
    ELSE LET first == CHOOSE r \in rows : \A x \in rows :
                          IF asc THEN r.date <= x.date ELSE r.date >= x.date
         IN <<first>> \o OrderByDate(rows \ {first}, asc)

\* LIMIT n
Limit(rows, n) == SubSeq(rows, 1, IF n < Len(rows) THEN n ELSE Len(rows))

\* Mutant of Reversed: the rows are returned as selected, newest first.
NotReversed(rows) == rows

\* list(reversed(rows))
Reversed(rows) == [i \in 1..Len(rows) |-> rows[Len(rows) + 1 - i]]

\* Mutant of GetRange: the bounds are exclusive.
GetRangeExclusive(p, u, start, end, asc) ==
    /\ pc[p] = "idle"
    /\ LET s == Bound(start)
           e == Bound(end)
           c == [op |-> "get_range", user_id |-> u, start_arg |-> start, end_arg |-> end,
                 start |-> DayOf(s), end |-> DayOf(e), asc |-> asc]
           rows == {r \in Visible(p) :
                      /\ r.user_id = u
                      /\ c.start # NoDate => r.date > c.start
                      /\ c.end # NoDate => r.date < c.end}
       IN IF s.kind = "raise"
            THEN Return(p, c, s)
            ELSE IF e.kind = "raise"
                   THEN Return(p, c, e)
                   ELSE Return(p, c, Ok(OrderByDate(rows, asc)))
    /\ UNCHANGED <<records, dirty, lock, now>>
    /\ UNCHANGED <<accounts, engine>>

\* get_range, lines 42-52: one SELECT with the optional bounds, ordered.
GetRange(p, u, start, end, asc) ==
    /\ pc[p] = "idle"
    /\ LET s == Bound(start)
           e == Bound(end)
           c == [op |-> "get_range", user_id |-> u, start_arg |-> start, end_arg |-> end,
                 start |-> DayOf(s), end |-> DayOf(e), asc |-> asc]
           rows == {r \in Visible(p) :
                      /\ r.user_id = u
                      /\ c.start # NoDate => r.date >= c.start
                      /\ c.end # NoDate => r.date <= c.end}
       IN IF s.kind = "raise"
            THEN Return(p, c, s)
            ELSE IF e.kind = "raise"
                   THEN Return(p, c, e)
                   ELSE Return(p, c, Ok(OrderByDate(rows, asc)))
    /\ UNCHANGED <<records, dirty, lock, now>>
    /\ UNCHANGED <<accounts, engine>>

\* last_n, lines 55-60: the n latest rows, newest first, then reversed.
LastN(p, u, n) ==
    /\ pc[p] = "idle"
    /\ LET c == [op |-> "last_n", user_id |-> u, n |-> n]
           rows == {r \in Visible(p) : r.user_id = u}
       IN Return(p, c, Ok(Reversed(Limit(OrderByDate(rows, FALSE), n))))
    /\ UNCHANGED <<records, dirty, lock, now>>
    /\ UNCHANGED <<accounts, engine>>

\* exists, lines 72-75: SELECT count(id), compared with 0.
Exists(p, u, date) ==
    /\ pc[p] = "idle"
    /\ LET day == NormalizeDate(date)
           c == [op |-> "exists", user_id |-> u, arg |-> date, date |-> DayOf(day)]
       IN IF day.kind = "raise"
            THEN Return(p, c, day)
            ELSE Return(p, c, Ok(Cardinality(Matching(Visible(p), u, c.date)) > 0))
    /\ UNCHANGED <<records, dirty, lock, now>>
    /\ UNCHANGED <<accounts, engine>>

\* weekly_avg, line 79: the window is end - 6 days .. end.
WindowDays == 6

RECURSIVE SumScj(_)
SumScj(rows) ==
    IF rows = {} THEN 0
    ELSE LET r == CHOOSE x \in rows : TRUE IN r.scj + SumScj(rows \ {r})

RECURSIVE Gcd(_, _)
Gcd(a, b) == IF b = 0 THEN a ELSE Gcd(b, a % b)

\* The real number n / d, in lowest terms; Absent stands for Python's None.
Fraction(n, d) == LET g == Gcd(n, d) IN [num |-> n \div g, den |-> d \div g]
Absent == [num |-> 0, den |-> 0]

\* Mutant of Avg: the mean is taken over the seven days of the window, the
\* days without a record counting as zero.
AvgOverWeek(rows) == Fraction(SumScj(rows), WindowDays + 1)

\* func.avg(Record.scj): NULL over no row.
Avg(rows) == IF rows = {} THEN Absent ELSE Fraction(SumScj(rows), Cardinality(rows))

\* weekly_avg, lines 78-84: the mean of scj over the 7 days ending at
\* end_date, or at today when end_date is not given.
WeeklyAvg(p, u, end_date, today) ==
    /\ pc[p] = "idle"
    /\ LET e == IF Truthy(end_date) THEN NormalizeDate(end_date) ELSE Ok(PyDate(today))
           c == [op |-> "weekly_avg", user_id |-> u, arg |-> end_date,
                 end_date |-> IF Truthy(end_date) THEN DayOf(e) ELSE NoDate,
                 today |-> today]
           end == DayOf(e)
           start == end - WindowDays
           rows == {r \in Visible(p) : r.user_id = u /\ r.date >= start /\ r.date <= end}
       IN IF e.kind = "raise"
            THEN Return(p, c, e)
            ELSE Return(p, c, Ok(Avg(rows)))
    /\ UNCHANGED <<records, dirty, lock, now>>
    /\ UNCHANGED <<accounts, engine>>

\* -------------------------------------------------------------- users
\* An email is the sequence of its characters.
UpperCase == <<"A", "B", "C", "D", "E", "F", "G", "H", "I", "J", "K", "L", "M",
               "N", "O", "P", "Q", "R", "S", "T", "U", "V", "W", "X", "Y", "Z">>
LowerCase == <<"a", "b", "c", "d", "e", "f", "g", "h", "i", "j", "k", "l", "m",
               "n", "o", "p", "q", "r", "s", "t", "u", "v", "w", "x", "y", "z">>
Whitespace == {" ", "\t", "\n"}

\* str.lower()
Lower(chars) ==
    [i \in 1..Len(chars) |->
        IF \E k \in 1..26 : UpperCase[k] = chars[i]
          THEN LowerCase[CHOOSE k \in 1..26 : UpperCase[k] = chars[i]]
          ELSE chars[i]]

\* str.strip()
RECURSIVE Strip(_)
Strip(chars) ==
    IF chars = <<>> THEN chars
    ELSE IF Head(chars) \in Whitespace THEN Strip(Tail(chars))
    ELSE IF chars[Len(chars)] \in Whitespace THEN Strip(SubSeq(chars, 1, Len(chars) - 1))
    ELSE chars

\* email.strip().lower()
Normalized(email) == Lower(Strip(email))

\* User(email=..., is_premium=...), as stored.
User(id, email, is_premium, created) ==
    [id |-> id, email |-> email, is_premium |-> is_premium, created_at |-> created]

\* What a statement of session p reads of table "users".
VisibleUsers(p) == IF lock = p THEN udirty ELSE users

\* create, lines 9-10: the session opens and the User object is built.
Create(p, email, is_premium) ==
    /\ pc[p] = "idle"
    /\ now < MaxNow
    /\ Goto(p, [op |-> "create", email |-> email, is_premium |-> is_premium,
                found |-> FALSE], "user_insert", NoRow)
    /\ UNCHANGED <<records, dirty, lock, now, accounts, engine>>

\* get_or_create, line 24: get_by_email in a session of its own; the user
\* found is returned, create is called when there is none.
GetOrCreate(p, email, is_premium) ==
    /\ pc[p] = "idle"
    /\ LET found == Scalar({u \in VisibleUsers(p) : u.email = Normalized(email)})
           c == [op |-> "get_or_create", email |-> email, is_premium |-> is_premium,
                 found |-> found.id # 0]
       IN IF c.found
            THEN Return(p, c, Ok(found))
            ELSE now < MaxNow /\ Goto(p, c, "user_insert", NoRow)
    /\ UNCHANGED <<records, dirty, lock, now, accounts, engine>>

\* create, lines 11-12 (s.add(u); s.flush()): the INSERT, checked against
\* the unique index on email, takes the writer lock.
UserInsert(p) ==
    /\ pc[p] = "user_insert"
    /\ lock = 0
    /\ LET email == Normalized(call[p].email)
       IN IF \E u \in users : u.email = email
            THEN /\ Return(p, call[p], Raise("IntegrityError"))
                 /\ UNCHANGED <<udirty, lock, now>>
            ELSE /\ now < MaxNow
                 /\ LET u == User(NextId(users), email, call[p].is_premium, now)
                    IN /\ udirty' = users \cup {u}
                       /\ Goto(p, call[p], "user_refresh", u)
                 /\ lock' = p
                 /\ now' = now + 1
    /\ UNCHANGED <<records, dirty, users, engine>>

\* The INSERT finds the database locked by another session until the busy
\* timeout expires: OperationalError, rolled back.
UserInsertLocked(p) ==
    /\ pc[p] = "user_insert"
    /\ lock \notin {0, p}
    /\ Return(p, call[p], Raise("OperationalError"))
    /\ UNCHANGED <<records, dirty, lock, now, accounts, engine>>

\* create, line 12: s.refresh(u) reloads the row by primary key.
UserRefresh(p) ==
    /\ pc[p] = "user_refresh"
    /\ Goto(p, call[p], "user_commit",
            CHOOSE u \in VisibleUsers(p) : u.id = rec[p].id)
    /\ UNCHANGED <<records, dirty, lock, now, accounts, engine>>

\* create, line 13, and get_session on exit: commit, and the expunged
\* user is returned.
UserCommit(p) ==
    /\ pc[p] = "user_commit"
    /\ users' = udirty
    /\ lock' = 0
    /\ Return(p, call[p], Ok(rec[p]))
    /\ UNCHANGED <<records, dirty, now, udirty, engine>>

\* get_by_email, lines 15-21.
GetByEmail(p, email) ==
    /\ pc[p] = "idle"
    /\ Return(p, [op |-> "get_by_email", email |-> email],
              Ok(Scalar({u \in VisibleUsers(p) : u.email = Normalized(email)})))
    /\ UNCHANGED <<records, dirty, lock, now, accounts, engine>>

\* ------------------------------------------------------- score engine
\* Numbers are exact fractions in lowest terms, with a positive denominator:
\* a float of the program is modelled by the real number it stands for.
Q(n) == Fraction(n, 1)
Half(n) == Fraction(n, 2)
Plus(a, b) == Fraction((a.num * b.den) + (b.num * a.den), a.den * b.den)
Times(a, b) == Fraction(a.num * b.num, a.den * b.den)
\* a / b, for b other than 0
Over(a, b) ==
    IF b.num > 0 THEN Fraction(a.num * b.den, a.den * b.num)
    ELSE Fraction(0 - (a.num * b.den), 0 - (a.den * b.num))
Leq(a, b) == a.num * b.den <= b.num * a.den
AbsQ(a) == [num |-> IF a.num < 0 THEN 0 - a.num ELSE a.num, den |-> a.den]

MIN_SCALE == 0
MAX_SCALE == 10
MAX_SLEEP_HOURS == 14

\* Mutant of DEFAULT_WEIGHTS: the sign of the stress weight is lost.
WeightsStressPositive ==
    [concentration |-> Q(2), humeur |-> Q(1), sommeil |-> Q(1), stress |-> Q(1)]

DEFAULT_WEIGHTS ==
    [concentration |-> Q(2), humeur |-> Q(1), sommeil |-> Q(1), stress |-> Q(0 - 1)]

DailyInput(humeur, sommeil, stress, concentration) ==
    [humeur |-> humeur, sommeil |-> sommeil, stress |-> stress,
     concentration |-> concentration]

\* Mutant of Clamp: only the lower bound is applied.
ClampLowOnly(value, low, high) == IF Leq(low, value) THEN value ELSE low

\* _clamp: max(low, min(high, value))
Clamp(value, low, high) ==
    LET m == IF Leq(high, value) THEN high ELSE value
    IN IF Leq(m, low) THEN low ELSE m

\* Mutant of Check: the bounds themselves are refused.
CheckExclusive(name, v, lo, hi) ==
    IF ~(Leq(lo, v) /\ lo # v /\ Leq(v, hi) /\ v # hi)
      THEN <<[name |-> name, value |-> v, lo |-> lo, hi |-> hi]>>
      ELSE <<>>

\* _check, lines 51-53: the error appended for a value out of lo..hi; the
\* message carries the name, the value and the two bounds.
Check(name, v, lo, hi) ==
    IF ~(Leq(lo, v) /\ Leq(v, hi))
      THEN <<[name |-> name, value |-> v, lo |-> lo, hi |-> hi]>>
      ELSE <<>>

\* Mutant of ValidateInput: validation stops at the first error.
ValidateInputFailFast(d) ==
    LET all == Check("humeur", d.humeur, Q(MIN_SCALE), Q(MAX_SCALE))
               \o Check("stress", d.stress, Q(MIN_SCALE), Q(MAX_SCALE))
               \o Check("concentration", d.concentration, Q(MIN_SCALE), Q(MAX_SCALE))
               \o Check("sommeil (heures)", d.sommeil, Q(0), Q(MAX_SLEEP_HOURS))
    IN IF all = <<>> THEN <<>> ELSE <<all[1]>>

\* validate_input, lines 47-61: the list `errors`, joined into the message
\* of InputValidationError when it is not empty.
ValidateInput(d) ==
    Check("humeur", d.humeur, Q(MIN_SCALE), Q(MAX_SCALE))
    \o Check("stress", d.stress, Q(MIN_SCALE), Q(MAX_SCALE))
    \o Check("concentration", d.concentration, Q(MIN_SCALE), Q(MAX_SCALE))
    \o Check("sommeil (heures)", d.sommeil, Q(0), Q(MAX_SLEEP_HOURS))

\* Mutant of Get: a metric without a weight counts with weight 1.
GetDefaultOne(w, k) == IF k \in DOMAIN w THEN w[k] ELSE Q(1)

\* w.get(k, 0.0)
Get(w, k) == IF k \in DOMAIN w THEN w[k] ELSE Q(0)

\* Mutant of SumAbs: the weights are summed with their signs.
RECURSIVE SumSignedOver(_, _)
SumSignedOver(w, keys) ==
    IF keys = {} THEN Q(0)
    ELSE LET k == CHOOSE x \in keys : TRUE
         IN Plus(w[k], SumSignedOver(w, keys \ {k}))
SumSigned(w) == SumSignedOver(w, DOMAIN w)

\* sum(abs(x) for x in w.values())
RECURSIVE SumAbsOver(_, _)
SumAbsOver(w, keys) ==
    IF keys = {} THEN Q(0)
    ELSE LET k == CHOOSE x \in keys : TRUE
         IN Plus(AbsQ(w[k]), SumAbsOver(w, keys \ {k}))
SumAbs(w) == SumAbsOver(w, DOMAIN w)

RECURSIVE Pow10(_)
Pow10(digits) == IF digits = 0 THEN 1 ELSE 10 * Pow10(digits - 1)

\* round(x, digits), digits >= 0: the nearest multiple of 10^-digits, a tie
\* going to the even one.
Round(x, digits) ==
    LET p == x.num * Pow10(digits)
        f == p \div x.den
        twice == 2 * (p - (f * x.den))
        n == IF twice > x.den THEN f + 1
             ELSE IF twice < x.den THEN f
             ELSE IF (f % 2) = 0 THEN f ELSE f + 1
    IN Fraction(n, Pow10(digits))

\* How a call of compute_scj relates to the call completed just before it:
\* "same" for the same metrics and weights; "focus" ("stress") for default
\* weights, the same settings and the same metrics but for a concentration
\* (a stress) at least as high; "none" otherwise.
After(d, weights, rounding, clamp_output) ==
    IF ~(out.call.op = "compute_scj" /\ out.ret.kind = "ok") THEN "none"
    ELSE IF out.call.d = d /\ out.call.weights = weights THEN "same"
    ELSE IF /\ weights = {} /\ out.call.weights = {}
            /\ out.call.rounding = rounding /\ out.call.clamp_output = clamp_output
            /\ out.call.d.humeur = d.humeur /\ out.call.d.sommeil = d.sommeil
         THEN IF /\ out.call.d.stress = d.stress
                 /\ Leq(out.call.d.concentration, d.concentration)
                THEN "focus"
              ELSE IF /\ out.call.d.concentration = d.concentration
                      /\ Leq(out.call.d.stress, d.stress)
                     THEN "stress"
                     ELSE "none"
    ELSE "none"

\* Mutant of ComputeScj: the value returned as raw is the final score.
ComputeScjRawIsFinal(p, d, weights, rounding, clamp_output) ==
    /\ pc[p] = "idle"
    /\ LET c == [op |-> "compute_scj", d |-> d, weights |-> weights,
                 rounding |-> rounding, clamp_output |-> clamp_output,
                 after |-> After(d, weights, rounding, clamp_output)]
           errors == ValidateInput(d)
           w == IF weights = {} THEN dicts.DEFAULT_WEIGHTS ELSE CHOOSE x \in weights : TRUE
           numerator == Plus(Plus(Times(Get(w, "concentration"), d.concentration),
                                  Times(Get(w, "humeur"), d.humeur)),
                             Plus(Times(Get(w, "sommeil"), d.sommeil),
                                  Times(Get(w, "stress"), d.stress)))
           denom == IF SumAbs(w) = Q(0) THEN Q(1) ELSE SumAbs(w)
           raw_score == Over(numerator, denom)
           final == Round(IF clamp_output
                            THEN Clamp(raw_score, Q(MIN_SCALE), Q(MAX_SCALE))
                            ELSE raw_score, rounding)
       IN IF errors # <<>>
            THEN Return(p, c, [kind |-> "raise", exc |-> "InputValidationError",
                               errors |-> errors])
            ELSE Return(p, c, Ok([scj |-> final, raw |-> final, weights |-> w]))
    /\ dicts' = [dicts EXCEPT !.weights = weights]
    /\ UNCHANGED <<records, dirty, lock, now, accounts, kept>>

\* compute_scj, lines 91-110, for valid metrics d and the copy w of the
\* weights: the ScoreResult returned.
ScoreResult(d, w, rounding, clamp_output) ==
    LET numerator == Plus(Plus(Times(Get(w, "concentration"), d.concentration),
                               Times(Get(w, "humeur"), d.humeur)),
                          Plus(Times(Get(w, "sommeil"), d.sommeil),
                               Times(Get(w, "stress"), d.stress)))
        denom == IF SumAbs(w) = Q(0) THEN Q(1) ELSE SumAbs(w)
        raw_score == Over(numerator, denom)
        final == Round(IF clamp_output
                         THEN Clamp(raw_score, Q(MIN_SCALE), Q(MAX_SCALE))
                         ELSE raw_score, rounding)
    IN [scj |-> final, raw |-> raw_score, weights |-> w]

\* What compute_scj raises for metrics that validate_input refuses.
InputValidationError(errors) ==
    [kind |-> "raise", exc |-> "InputValidationError", errors |-> errors]

\* Mutant of ComputeScj: the weights passed are merged into DEFAULT_WEIGHTS
\* instead of being copied.
ComputeScjUpdatesDefaults(p, d, weights, rounding, clamp_output) ==
    /\ pc[p] = "idle"
    /\ LET c == [op |-> "compute_scj", d |-> d, weights |-> weights,
                 rounding |-> rounding, clamp_output |-> clamp_output,
                 after |-> After(d, weights, rounding, clamp_output)]
           errors == ValidateInput(d)
           w == IF weights = {} THEN dicts.DEFAULT_WEIGHTS ELSE CHOOSE x \in weights : TRUE
       IN /\ IF errors # <<>>
               THEN Return(p, c, InputValidationError(errors))
               ELSE Return(p, c, Ok(ScoreResult(d, w, rounding, clamp_output)))
          /\ dicts' = [DEFAULT_WEIGHTS |-> IF errors # <<>> THEN dicts.DEFAULT_WEIGHTS ELSE w,
                       weights |-> weights]
    /\ UNCHANGED <<records, dirty, lock, now, accounts, kept>>

\* compute_scj, lines 89-110.  `weights` is the empty set for None, the set
\* of the one mapping passed otherwise.  The weights used are a copy
\* (line 91): the call writes to neither DEFAULT_WEIGHTS nor the mapping
\* passed.
ComputeScj(p, d, weights, rounding, clamp_output) ==
    /\ pc[p] = "idle"
    /\ LET c == [op |-> "compute_scj", d |-> d, weights |-> weights,
                 rounding |-> rounding, clamp_output |-> clamp_output,
                 after |-> After(d, weights, rounding, clamp_output)]
           errors == ValidateInput(d)
           w == IF weights = {} THEN dicts.DEFAULT_WEIGHTS ELSE CHOOSE x \in weights : TRUE
       IN IF errors # <<>>
            THEN Return(p, c, InputValidationError(errors))
            ELSE Return(p, c, Ok(ScoreResult(d, w, rounding, clamp_output)))
    /\ dicts' = [dicts EXCEPT !.weights = weights]
    /\ UNCHANGED <<records, dirty, lock, now, accounts, kept>>

\* r1 = compute_scj(d): the caller keeps the result of the call just
\* completed, to compare it with a later one.
Remember ==
    /\ out.call.op = "compute_scj"
    /\ out.ret.kind = "ok"
    /\ kept' = out
    /\ out' = NoOut
    /\ UNCHANGED <<records, dirty, lock, now, pc, call, rec, accounts, dicts>>

\* The messages of interpret_scj, lines 120-127, by their first words
\* (without the accents).
Tier(n) ==
    CASE n = 1 -> "Energie mentale tres elevee."
      [] n = 2 -> "Bonne clarte d'esprit."
      [] n = 3 -> "Etat correct."
      [] n = 4 -> "Baisse de regime."
      [] n = 5 -> "Fatigue cognitive marquee."

\* Mutant of AtLeast: a threshold belongs to the tier below it.
Above(s, t) == Leq(t, s) /\ s # t

\* s >= t
AtLeast(s, t) == Leq(t, s)

\* interpret_scj, lines 118-127.
InterpretScj(scj) ==
    LET s == Clamp(scj, Q(MIN_SCALE), Q(MAX_SCALE))
    IN IF AtLeast(s, Half(17)) THEN Tier(1)
       ELSE IF AtLeast(s, Q(7)) THEN Tier(2)
       ELSE IF AtLeast(s, Half(11)) THEN Tier(3)
       ELSE IF AtLeast(s, Q(4)) THEN Tier(4)
       ELSE Tier(5)

Interpret(p, scj) ==
    /\ pc[p] = "idle"
    /\ Return(p, [op |-> "interpret_scj", scj |-> scj], Ok(InterpretScj(scj)))
    /\ UNCHANGED <<records, dirty, lock, now, accounts, engine>>

\* Weight mappings callers pass: the tests' custom weights, all the weight
\* on sleep, and a mapping that names the stress only.
CustomWeights ==
    [concentration |-> Q(1), humeur |-> Q(1), sommeil |-> Q(3), stress |-> Q(0 - 1)]
SleepOnly ==
    [sommeil |-> Q(1), humeur |-> Q(0), concentration |-> Q(0), stress |-> Q(0)]
StressOnly == [stress |-> Q(0 - 1)]
\* No weight at all: every weight zero, and the empty mapping.
ZeroWeights ==
    [concentration |-> Q(0), humeur |-> Q(0), sommeil |-> Q(0), stress |-> Q(0)]
EmptyWeights == [k \in {} |-> Q(0)]
\* A mapping with one more entry, under a key that names no metric.
Extended(w) ==
    [k \in DOMAIN w \cup {"energie"} |-> IF k = "energie" THEN Q(5) ELSE w[k]]

\* ----------------------------------------------------------- workflow
\* Mutant of FormFields: the raw score is stored.
FormFieldsRaw(d, res, interpretation) ==
    [humeur |-> d.humeur, sommeil |-> d.sommeil, stress |-> d.stress,
     concentration |-> d.concentration, scj |-> res.raw,
     interpretation |-> interpretation]

\* The keyword arguments of the upsert of main.py, lines 98-107, and of
\* seed_local_data.py, lines 143-152.
FormFields(d, res, interpretation) ==
    [humeur |-> d.humeur, sommeil |-> d.sommeil, stress |-> d.stress,
     concentration |-> d.concentration, scj |-> res.scj,
     interpretation |-> interpretation]

\* What the interpretation service answers is an input of the workflow.
AiTexts == {"Conseil du jour."}

\* The two callers: compute_scj(day) with the default settings, an
\* interpretation, then upsert.  When compute_scj raises, the caller goes
\* no further.  `c` names the caller for the call that ends there.
Persist(p, u, date, d, c, interpretation) ==
    IF ValidateInput(d) # <<>>
      THEN /\ pc[p] = "idle"
           /\ Return(p, c, InputValidationError(ValidateInput(d)))
           /\ UNCHANGED <<records, dirty, lock, now, accounts, engine>>
      ELSE UpsertSelect(p, u, date,
                        FormFields(d, ScoreResult(d, dicts.DEFAULT_WEIGHTS, 2, TRUE),
                                   interpretation))

\* main.py, lines 77-107: the form is submitted, with or without the
\* interpretation service.
Submit(p, u, date, d, use_ai, text) ==
    Persist(p, u, date, d, [op |-> "submit", user_id |-> u, date |-> DayOf(NormalizeDate(date)), d |-> d],
            IF use_ai THEN text
            ELSE InterpretScj(ScoreResult(d, dicts.DEFAULT_WEIGHTS, 2, TRUE).scj))

\* seed_local_data.py, lines 128-152: one day of one user is seeded,
\* without interpretation (ai is None) or with one.
SeedDay(p, u, date, d, with_ai, text) ==
    Persist(p, u, date, d, [op |-> "seed", user_id |-> u, date |-> DayOf(NormalizeDate(date)), d |-> d],
            IF with_ai THEN text ELSE None)

\* --------------------------------------------------------------- Init
\* An empty database (init_db on a new file), no session open, the module
\* score_engine just imported.
Init ==
    /\ records = {}
    /\ dirty = {}
    /\ lock = 0
    /\ now = 0
    /\ pc   = [p \in Procs |-> "idle"]
    /\ call = [p \in Procs |-> NoCall]
    /\ rec  = [p \in Procs |-> NoRow]
    /\ out  = NoOut
    /\ users = {}
    /\ udirty = {}
    /\ dicts = [DEFAULT_WEIGHTS |-> DEFAULT_WEIGHTS, weights |-> {}]
    /\ kept = NoOut

\* --------------------------------------------------------------- Spec
\* Two sessions race with every write on the keys RaceUsers \X RaceDays.
Next ==
    \E p \in Procs :
        \/ \E u \in RaceUsers, d \in RaceDays, f \in Kwargs : AddSelect(p, u, PyDate(d), f)
        \/ \E u \in RaceUsers, d \in RaceDays, f \in Kwargs : UpsertSelect(p, u, PyDate(d), f)
        \/ \E u \in RaceUsers, d \in RaceDays : DeleteSelect(p, u, PyDate(d))
        \/ Update(p)
        \/ Insert(p)
        \/ FlushLocked(p)
        \/ Refresh(p)
        \/ Commit(p)
        \/ DeleteCommit(p)

Spec == Init /\ [][Next]_vars

\* Two sessions race with upserts only; a flush waits for the writer lock
\* as long as it takes.
UpsertNext ==
    \E p \in Procs :
        \/ \E u \in RaceUsers, d \in RaceDays, f \in Kwargs : UpsertSelect(p, u, PyDate(d), f)
        \/ Update(p)
        \/ Insert(p)
        \/ Refresh(p)
        \/ Commit(p)

UpsertSpec == Init /\ [][UpsertNext]_vars

\* Two sessions race with upserts only; the busy timeout can expire.
BusyNext ==
    \/ UpsertNext
    \/ \E p \in Procs : FlushLocked(p)

BusySpec == Init /\ [][BusyNext]_vars

\* Session 1 writes while session 2 reads.
ReadNext ==
    \/ \E u \in RaceUsers, d \in RaceDays, f \in Kwargs : UpsertSelect(1, u, PyDate(d), f)
    \/ \E u \in RaceUsers, d \in RaceDays : DeleteSelect(1, u, PyDate(d))
    \/ Update(1)
    \/ Insert(1)
    \/ Refresh(1)
    \/ Commit(1)
    \/ DeleteCommit(1)
    \/ \E u \in RaceUsers, asc \in BOOLEAN : GetRange(2, u, PyNone, PyNone, asc)
    \/ \E u \in RaceUsers, n \in 0..MaxN : LastN(2, u, n)
    \/ \E u \in RaceUsers, e \in {PyNone, PyDate(1), PyDate(2 + WindowDays)} :
          WeeklyAvg(2, u, e, 1)

ReadSpec == Init /\ [][ReadNext]_vars

\* One session, one call at a time, writing on the keys Users \X Days.
SeqNext ==
    \/ \E u \in Users, d \in Days, f \in Kwargs : AddSelect(1, u, PyDate(d), f)
    \/ \E u \in Users, d \in Days, f \in Kwargs : UpsertSelect(1, u, PyDate(d), f)
    \/ \E u \in Users, d \in Days : DeleteSelect(1, u, PyDate(d))
    \/ Update(1)
    \/ Insert(1)
    \/ Refresh(1)
    \/ Commit(1)
    \/ DeleteCommit(1)

SeqSpec == Init /\ [][SeqNext]_vars

\* One session, one call at a time, adding, deleting and querying.
QueryNext ==
    \/ \E u \in Users, d \in Days : AddSelect(1, u, PyDate(d), KwFirst)
    \/ \E u \in Users, d \in Days : DeleteSelect(1, u, PyDate(d))
    \/ Insert(1)
    \/ Refresh(1)
    \/ Commit(1)
    \/ DeleteCommit(1)
    \/ \E u \in Users, start \in {PyNone} \cup {PyDate(d) : d \in Days},
          end \in {PyNone} \cup {PyDate(d) : d \in Days},
          asc \in BOOLEAN : GetRange(1, u, start, end, asc)
    \/ \E u \in Users, n \in 0..MaxN : LastN(1, u, n)
    \/ \E u \in Users, d \in Days : Exists(1, u, PyDate(d))

QuerySpec == Init /\ [][QueryNext]_vars

\* One session adds and deletes records around a week and asks for the
\* weekly average of a week ending on day 8 or 9, or today (day 8).
WeekNext ==
    \/ \E u \in Users, d \in WeekDays, f \in {KwFirst, KwBetter, KwWorst} :
          AddSelect(1, u, PyDate(d), f)
    \/ \E u \in Users, d \in WeekDays : DeleteSelect(1, u, PyDate(d))
    \/ Insert(1)
    \/ Refresh(1)
    \/ Commit(1)
    \/ DeleteCommit(1)
    \/ \E u \in Users, e \in {PyNone, PyDate(8), PyDate(9)} : WeeklyAvg(1, u, e, 8)

WeekSpec == Init /\ [][WeekNext]_vars

\* One session calls every method that takes a date, with the days 1..MaxDay
\* in each of their forms, with malformed dates and with None.
DateInputs == UNION {DateForms(d) : d \in Days} \cup Malformed \cup {PyNone}

NormNext ==
    \/ \E u \in RaceUsers, x \in DateInputs : AddSelect(1, u, x, KwFirst)
    \/ \E u \in RaceUsers, x \in DateInputs : UpsertSelect(1, u, x, KwFirst)
    \/ \E u \in RaceUsers, x \in DateInputs : DeleteSelect(1, u, x)
    \/ Update(1)
    \/ Insert(1)
    \/ Refresh(1)
    \/ Commit(1)
    \/ DeleteCommit(1)
    \/ \E u \in RaceUsers, x \in DateInputs : Exists(1, u, x)
    \/ \E u \in RaceUsers, x \in DateInputs : GetRange(1, u, x, PyNone, TRUE)
    \/ \E u \in RaceUsers, x \in DateInputs : GetRange(1, u, PyDate(1), x, TRUE)
    \/ \E u \in RaceUsers, x \in DateInputs : WeeklyAvg(1, u, x, 1)

NormSpec == Init /\ [][NormNext]_vars

\* compute_scj is called once, with metrics on and beyond the bounds of
\* their domains.
EdgeScale == {Half(0 - 1), Q(MIN_SCALE), Q(MAX_SCALE), Half(21)}
EdgeSleep == {Half(0 - 1), Q(0), Q(MAX_SLEEP_HOURS), Half(29)}

ValidateNext ==
    \E humeur \in EdgeScale, sommeil \in EdgeSleep, stress \in EdgeScale,
       concentration \in EdgeScale,
       settings \in {<<{}, 2, TRUE>>, <<{SleepOnly}, 0, FALSE>>, <<{CustomWeights}, 1, TRUE>>} :
        /\ out.proc = 0
        /\ ComputeScj(1, DailyInput(humeur, sommeil, stress, concentration),
                      settings[1], settings[2], settings[3])

ValidateSpec == Init /\ [][ValidateNext]_vars

\* compute_scj is called with valid metrics under every setting, then
\* called again with inputs related to those of the call before (After).
ScoreNext ==
    \E humeur \in {Q(0), Q(7)}, sommeil \in {Half(13), Q(12)},
       stress \in {Q(0), Q(3), Q(10)}, concentration \in {Q(0), Half(15), Q(10)},
       weights \in {{}, {CustomWeights}, {SleepOnly}, {StressOnly}},
       rounding \in {0, 1, 2}, clamp_output \in BOOLEAN :
        /\ \/ out.proc = 0
           \/ After(DailyInput(humeur, sommeil, stress, concentration),
                    weights, rounding, clamp_output) # "none"
        /\ ComputeScj(1, DailyInput(humeur, sommeil, stress, concentration),
                      weights, rounding, clamp_output)

ScoreSpec == Init /\ [][ScoreNext]_vars

\* compute_scj is called with a few metrics under several settings, with
\* calls of interpret_scj in between; the caller keeps a result now and then.
DetMetrics == {DailyInput(Q(7), Half(13), Q(3), Half(15)), DailyInput(Q(0), Q(12), Q(10), Q(0))}

DetNext ==
    \/ \E d \in DetMetrics, weights \in {{}, {CustomWeights}, {StressOnly}},
          rounding \in {1, 2}, clamp_output \in BOOLEAN :
          ComputeScj(1, d, weights, rounding, clamp_output)
    \/ Remember
    \/ \E scj \in {Q(3), Q(9)} : Interpret(1, scj)

DetSpec == Init /\ [][DetNext]_vars

\* interpret_scj is called with the quarters from -5 to 25 and with scores
\* just under a threshold.
Scores == {Fraction(n, 4) : n \in (0 - 20)..100}
            \cup {Fraction(849, 100), Fraction(699, 100), Fraction(549, 100),
                  Fraction(399, 100)}

InterpretNext == \E scj \in Scores : Interpret(1, scj)

InterpretSpec == Init /\ [][InterpretNext]_vars

\* compute_scj is called with weight mappings of every shape: none, empty,
\* all zero, partial, and with an entry that names no metric.
WeightNext ==
    \E humeur \in {Q(0), Q(7)}, stress \in {Q(3), Q(10)}, concentration \in {Q(0), Half(15)},
       weights \in {{}, {EmptyWeights}, {ZeroWeights}, {CustomWeights}, {StressOnly},
                    {Extended(DEFAULT_WEIGHTS)}, {Extended(CustomWeights)},
                    {Extended(StressOnly)}, {Extended(ZeroWeights)}},
       clamp_output \in BOOLEAN :
        ComputeScj(1, DailyInput(humeur, Half(13), stress, concentration),
                   weights, 2, clamp_output)

WeightSpec == Init /\ [][WeightNext]_vars

\* One session submits the form and seeds days, one call at a time.  The
\* metrics are on the sliders' scales, but for one humeur beyond the scale
\* (the handler does not rely on the widget to refuse it).  Each element
\* is <<metrics, whether the interpretation service is used>>.
FormInputs ==
    {<<DailyInput(Q(7), Half(13), Q(3), Half(15)), FALSE>>,
     <<DailyInput(Q(0), Q(0), Q(10), Q(0)), TRUE>>,
     <<DailyInput(Half(21), Q(7), Q(4), Half(13)), FALSE>>}
SeedInputs ==
    {<<DailyInput(Half(13), Q(7), Q(4), Q(6)), FALSE>>,
     <<DailyInput(Half(13), Q(7), Q(4), Q(6)), TRUE>>}

WorkflowNext ==
    \/ \E u \in RaceUsers, d \in Days, x \in FormInputs, text \in AiTexts :
          Submit(1, u, PyDate(d), x[1], x[2], text)
    \/ \E u \in RaceUsers, d \in Days, x \in SeedInputs, text \in AiTexts :
          SeedDay(1, u, PyDate(d), x[1], x[2], text)
    \/ Update(1)
    \/ Insert(1)
    \/ Refresh(1)
    \/ Commit(1)

WorkflowSpec == Init /\ [][WorkflowNext]_vars

\* Session 1 deletes and upserts while session 2 adds, deletes and reads,
\* on the days 1..MaxDay of one user.
FrameNext ==
    \/ \E d \in Days : UpsertSelect(1, 1, PyDate(d), KwBetter)
    \/ \E p \in Procs, d \in Days : DeleteSelect(p, 1, PyDate(d))
    \/ \E d \in Days : AddSelect(2, 1, PyDate(d), KwFirst)
    \/ \E p \in Procs :
          \/ Update(p)
          \/ Insert(p)
          \/ Refresh(p)
          \/ Commit(p)
          \/ DeleteCommit(p)
    \/ GetRange(2, 1, PyNone, PyNone, TRUE)
    \/ LastN(2, 1, MaxN)
    \/ \E d \in Days : Exists(2, 1, PyDate(d))
    \/ WeeklyAvg(2, 1, PyNone, MaxDay)

FrameSpec == Init /\ [][FrameNext]_vars

\* Two sessions create and look up users under two addresses written in
\* several ways (the tests' "a@b.com" / "A@B.com", shortened).
Emails ==
    {<<"a", "@", "b">>, <<"A", "@", "B">>, <<" ", "a", "@", "b", " ">>,
     <<"c", "@", "b">>}

UserNext ==
    \E p \in Procs :
        \/ \E email \in Emails, is_premium \in BOOLEAN : Create(p, email, is_premium)
        \/ \E email \in Emails, is_premium \in BOOLEAN : GetOrCreate(p, email, is_premium)
        \/ \E email \in Emails : GetByEmail(p, email)
        \/ UserInsert(p)
        \/ UserInsertLocked(p)
        \/ UserRefresh(p)
        \/ UserCommit(p)

UserSpec == Init /\ [][UserNext]_vars

\* =============================================================== claims
\* The rows of `table` stored for user u and day d.
RowsOf(table, u, d) == {r \in table : r.user_id = u /\ r.date = d}

\* The step just taken completed a call of method op.
Completed(op) == out.call.op = op

Raised(exc) == out.ret.kind = "raise" /\ out.ret.exc = exc

\* Row r holds every value passed in fields.
Holds(r, fields) == \A k \in DOMAIN fields : r[k] = fields[k]

\* The elements of a sequence of rows.
Elems(rows) == {rows[i] : i \in 1..Len(rows)}

\* C1 (Spec): whatever add, upsert and delete calls the two sessions
\* interleave, the table never holds two rows for the same (user_id, date),
\* committed or not.
OneRecordPerDay ==
    \A table \in {records, dirty} : \A r1, r2 \in table :
        (r1.user_id = r2.user_id /\ r1.date = r2.date) => r1 = r2

\* C1 witness: a racing INSERT was refused by the constraint while the
\* winner's row is stored.
RaceRefusedByConstraint ==
    /\ Raised("IntegrityError")
    /\ RowsOf(records, out.call.user_id, out.call.date) # {}

\* C2 (UpsertSpec), the claim as stated: an upsert that found no record
\* never fails, whatever another upsert of the same key does meanwhile.
ConcurrentUpsertsBothSucceed ==
    (Completed("upsert") /\ ~out.call.found) => out.ret.kind = "ok"

\* C3 (UpsertSpec), the claim as stated: right after an upsert has
\* committed what it wrote, so that it is the write that committed last, the
\* key has exactly one row and it holds the values that upsert passed.
LaterCommitWins ==
    (Completed("upsert") /\ out.ret.kind = "ok" /\ out.call.flushes > 0) =>
        \E r \in records :
            /\ RowsOf(records, out.call.user_id, out.call.date) = {r}
            /\ Holds(r, out.call.fields)

\* C8 (BusySpec), the claim as stated: an upsert surfaces a storage
\* error only after it has retried its flush at least once.
UpsertRetriesBeforeFailing ==
    (Completed("upsert") /\ out.ret.kind = "raise") => out.call.flushes > 1

\* C7 (ReadSpec): every row get_range or last_n returns while another
\* session writes is a committed row, whole, and weekly_avg averages
\* committed rows only: no read sees the uncommitted half of an upsert.
ReadsSeeCommittedRows ==
    /\ (Completed("get_range") \/ Completed("last_n")) =>
           Elems(out.ret.value) \subseteq records
    /\ Completed("weekly_avg") =>
           LET end == IF out.call.end_date # NoDate THEN out.call.end_date
                      ELSE out.call.today
           IN out.ret.value =
                  Avg({r \in records : /\ r.user_id = out.call.user_id
                                       /\ r.date >= end - WindowDays
                                       /\ r.date <= end})

\* C7 witness: get_range returned the old row while session 1, in the
\* middle of an upsert of that row, holds a different uncommitted version.
ReadDuringUpsert ==
    /\ Completed("get_range")
    /\ Len(out.ret.value) = 1
    /\ lock = 1 /\ call[1].op = "upsert" /\ call[1].found
    /\ \E r \in dirty : r.id = out.ret.value[1].id /\ r # out.ret.value[1]

\* C4 (SeqSpec): an upsert succeeds and returns the row stored for its key,
\* which holds the values passed; when the key had a row, no row is added
\* and the row keeps its id and created_at; otherwise one row is added,
\* with an id no stored row has.
UpsertContract ==
    [][Completed("upsert")' =>
        LET c == out'.call
            r == out'.ret.value
            old == RowsOf(records, c.user_id, c.date)
        IN /\ out'.ret.kind = "ok"
           /\ RowsOf(records', c.user_id, c.date) = {r}
           /\ Holds(r, c.fields)
           /\ IF old # {}
                THEN /\ Cardinality(records') = Cardinality(records)
                     /\ \A o \in old : r.id = o.id /\ r.created_at = o.created_at
                ELSE /\ Cardinality(records') = Cardinality(records) + 1
                     /\ r.id \notin {x.id : x \in records}]_vars

\* C4 witness: an upsert has overwritten an existing row with an UPDATE.
UpsertOverwrote ==
    /\ Completed("upsert") /\ out.ret.kind = "ok"
    /\ out.call.found /\ out.call.flushes = 1

\* C5 (SeqSpec): an upsert that repeats the upsert just completed, with the
\* same arguments, changes nothing in the table at any of its steps, and
\* returns the one row of the key, holding those values.
UpsertIdempotent ==
    [][/\ (call[1].op = "upsert" /\ call[1].again) => records' = records
       /\ (Completed("upsert")' /\ out'.call.again) =>
              /\ out'.ret.kind = "ok"
              /\ RowsOf(records', out'.call.user_id, out'.call.date) = {out'.ret.value}
              /\ Holds(out'.ret.value, out'.call.fields)]_vars

\* C5 witness: the same upsert has been completed twice in a row.
UpsertRepeated ==
    Completed("upsert") /\ out.call.again /\ out.ret.kind = "ok"

\* C6 (SeqSpec): add raises ValueError and changes no row when the key has
\* a record; otherwise it adds exactly the row it returns, which has that
\* key and the values passed.
AddContract ==
    [][Completed("add")' =>
        LET c == out'.call
        IN IF RowsOf(records, c.user_id, c.date) # {}
             THEN /\ out'.ret.kind = "raise" /\ out'.ret.exc = "ValueError"
                  /\ records' = records
             ELSE /\ out'.ret.kind = "ok"
                  /\ out'.ret.value \notin records
                  /\ records' = records \cup {out'.ret.value}
                  /\ out'.ret.value.user_id = c.user_id
                  /\ out'.ret.value.date = c.date
                  /\ Holds(out'.ret.value, c.fields)]_vars

\* C6 witness: an add was refused because its key already had a record.
AddRefused == Completed("add") /\ Raised("ValueError")

\* C9 (QuerySpec): get_range returns, each once, exactly the user's rows
\* whose date is within the bounds given, by date ascending or descending
\* as asked; it returns the empty sequence when there is none.
GetRangeContract ==
    Completed("get_range") =>
        LET c == out.call
            res == out.ret.value
            want == {r \in records : /\ r.user_id = c.user_id
                                     /\ (c.start = NoDate \/ c.start <= r.date)
                                     /\ (c.end = NoDate \/ r.date <= c.end)}
        IN /\ out.ret.kind = "ok"
           /\ Elems(res) = want
           /\ Len(res) = Cardinality(want)
           /\ \A i \in 1..(Len(res) - 1) :
                  IF c.asc THEN res[i].date < res[i + 1].date
                           ELSE res[i].date > res[i + 1].date

\* C9 witness: a get_range with both bounds returned a row on each bound,
\* newest first.
GetRangeDescending ==
    /\ Completed("get_range") /\ ~out.call.asc
    /\ out.call.start # NoDate /\ out.call.end # NoDate
    /\ Len(out.ret.value) = 2
    /\ out.ret.value[1].date = out.call.end
    /\ out.ret.value[2].date = out.call.start

\* C10 (QuerySpec): last_n returns min(n, count) rows of the user, oldest
\* first, and every row of the user it leaves out is older than all of them.
LastNContract ==
    Completed("last_n") =>
        LET c == out.call
            res == out.ret.value
            mine == {r \in records : r.user_id = c.user_id}
        IN /\ out.ret.kind = "ok"
           /\ Len(res) = (IF c.n < Cardinality(mine) THEN c.n ELSE Cardinality(mine))
           /\ Elems(res) \subseteq mine
           /\ \A i \in 1..(Len(res) - 1) : res[i].date < res[i + 1].date
           /\ \A r \in mine \ Elems(res) : \A i \in 1..Len(res) : r.date < res[i].date

\* C10 witness: last_n returned the newest row of a user who has more rows
\* than asked for.
LastNTruncated ==
    /\ Completed("last_n") /\ out.call.n >= 1
    /\ Len(out.ret.value) = out.call.n
    /\ \E r \in records : r.user_id = out.call.user_id /\ r \notin Elems(out.ret.value)

\* C11 (WeekSpec): weekly_avg with an end date returns the sum of scj
\* divided by the count over the user's records dated after end - 7 and
\* before end + 1, and returns None exactly when there is no such record
\* (a mean of 0 is returned as 0).
WeeklyAvgContract ==
    (Completed("weekly_avg") /\ out.call.end_date # NoDate) =>
        LET c == out.call
            a == out.ret.value
            window == {r \in records : /\ r.user_id = c.user_id
                                        /\ r.date > c.end_date - 7
                                        /\ r.date < c.end_date + 1}
        IN /\ out.ret.kind = "ok"
           /\ (a = Absent) <=> (window = {})
           /\ window # {} =>
                  /\ a.den > 0
                  /\ a.num * Cardinality(window) = a.den * SumScj(window)

\* C11 witness: the user has a record seven days before the end date and
\* one on the end date, and the mean returned is the score of the latter.
WeeklyAvgSkipsOutside ==
    /\ Completed("weekly_avg") /\ out.call.end_date = 8
    /\ \E r \in records : r.user_id = out.call.user_id /\ r.date = 1
    /\ \E r \in records : /\ r.user_id = out.call.user_id /\ r.date = 8
                           /\ out.ret.value = [num |-> r.scj, den |-> 1]

\* C12 (SeqSpec): delete returns True exactly when the key had a record,
\* and then removes exactly that record; it returns False, changing
\* nothing, when the key had none; when it returns the key has no record.
DeleteContract ==
    [][Completed("delete")' =>
        LET c == out'.call
            old == RowsOf(records, c.user_id, c.date)
        IN /\ out'.ret.kind = "ok"
           /\ out'.ret.value = (old # {})
           /\ records' = records \ old
           /\ RowsOf(records', c.user_id, c.date) = {}]_vars

\* C12 witness: a delete has removed the record of its key.
DeleteRemoved ==
    /\ Completed("delete") /\ out.call.found /\ out.ret.kind = "ok"
    /\ RowsOf(records, out.call.user_id, out.call.date) = {}

\* The value x, passed as a date, denotes day n: it is the date object of
\* that day, a datetime on that day, or the ISO-8601 text of that day.
Denotes(x, n) ==
    \/ x.type = "date" /\ x.ord = n
    \/ x.type = "datetime" /\ x.ord = n
    \/ x.type = "str" /\ x.chars = IsoFormat(n)

\* x is a well-formed date: it denotes one of the days of the model.
WellFormed(x) == \E n \in Days : Denotes(x, n)

\* The values the completed call c was given as dates (None, where a date
\* is optional, is no date given).
DateArgs(c) ==
    IF c.op \in {"add", "upsert", "delete", "exists"} THEN {c.arg}
    ELSE IF c.op = "weekly_avg" THEN {x \in {c.arg} : x.type # "NoneType"}
    ELSE IF c.op = "get_range"
           THEN {x \in {c.start_arg, c.end_arg} : x.type # "NoneType"}
           ELSE {}

\* C13 (NormSpec): exists, given a day in any of the three forms, returns
\* True exactly when a record is stored for the user and the day the value
\* denotes; and a record written through add or upsert is stored under the
\* day its date argument denotes, whatever its form.
ExistsNormalized ==
    /\ (Completed("exists") /\ WellFormed(out.call.arg)) =>
           /\ out.ret.kind = "ok"
           /\ out.ret.value = (\E r \in records : /\ r.user_id = out.call.user_id
                                                  /\ Denotes(out.call.arg, r.date))
    /\ ((Completed("add") \/ Completed("upsert")) /\ out.ret.kind = "ok") =>
           Denotes(out.call.arg, out.ret.value.date)

\* C13 witness: exists, asked with the ISO text of a day, found the record.
ExistsByText ==
    /\ Completed("exists") /\ out.call.arg.type = "str"
    /\ out.ret.kind = "ok" /\ out.ret.value

\* C14 (NormSpec), the claim as stated: a call given a malformed date
\* raises TypeError and leaves the table unchanged.
MalformedDateIsTypeError ==
    [][\A x \in DateArgs(out'.call) :
          ~WellFormed(x) => /\ out'.ret.kind = "raise"
                            /\ out'.ret.exc = "TypeError"
                            /\ records' = records]_vars

\* The four metrics, and the domain the specification gives each.
MetricNames == {"humeur", "sommeil", "stress", "concentration"}
Lo(f) == Q(0)
Hi(f) == IF f = "sommeil" THEN Q(14) ELSE Q(10)
InDomain(f, v) == Leq(Lo(f), v) /\ Leq(v, Hi(f))

\* The name under which validate_input reports metric f.
Label(f) == IF f = "sommeil" THEN "sommeil (heures)" ELSE f

\* C15 (ValidateSpec): compute_scj returns a result exactly when the four
\* metrics are in their domains, bounds included, and raises
\* InputValidationError, with no result, otherwise, whatever the weights,
\* the rounding and the clamp flag.
ComputeValidates ==
    Completed("compute_scj") =>
        /\ (out.ret.kind = "ok") <=> (\A f \in MetricNames : InDomain(f, out.call.d[f]))
        /\ out.ret.kind = "raise" => out.ret.exc = "InputValidationError"

\* C15 witness: a call with custom weights, no clamp and 14.5 hours of
\* sleep as its only metric out of domain was refused.
ComputeRefused ==
    /\ Completed("compute_scj") /\ Raised("InputValidationError")
    /\ out.call.weights # {} /\ ~out.call.clamp_output
    /\ \A f \in MetricNames : InDomain(f, out.call.d[f]) <=> f # "sommeil"
    /\ out.call.d.sommeil = Half(29)

\* C16 (ValidateSpec): the errors of a refused call are one entry for each
\* metric out of its domain and no other entry, each entry carrying the
\* metric's name, its value and the bounds expected.
ValidateReportsAll ==
    (Completed("compute_scj") /\ out.ret.kind = "raise") =>
        LET bad == {f \in MetricNames : ~InDomain(f, out.call.d[f])}
            errors == out.ret.errors
        IN /\ Len(errors) = Cardinality(bad)
           /\ \A f \in bad : \E i \in 1..Len(errors) :
                  errors[i] = [name |-> Label(f), value |-> out.call.d[f],
                               lo |-> Lo(f), hi |-> Hi(f)]

\* C16 witness: a call with the four metrics out of domain was refused.
AllFourReported ==
    /\ Completed("compute_scj") /\ Raised("InputValidationError")
    /\ \A f \in MetricNames : ~InDomain(f, out.call.d[f])
    /\ Len(out.ret.errors) = 4

\* The weight the completed call c gives metric f: the specification's
\* default (2 focus, 1 mood, 1 sleep, -1 stress) when none is passed, 0 for
\* a metric the mapping passed does not name.
WeightOf(c, f) ==
    IF c.weights = {}
      THEN (IF f = "concentration" THEN Q(2) ELSE IF f = "stress" THEN Q(0 - 1) ELSE Q(1))
      ELSE LET w == CHOOSE x \in c.weights : TRUE
           IN IF f \in DOMAIN w THEN w[f] ELSE Q(0)

WeightedSum(c) ==
    Plus(Plus(Times(WeightOf(c, "humeur"), c.d.humeur),
              Times(WeightOf(c, "sommeil"), c.d.sommeil)),
         Plus(Times(WeightOf(c, "stress"), c.d.stress),
              Times(WeightOf(c, "concentration"), c.d.concentration)))

WeightTotal(c) ==
    Plus(Plus(AbsQ(WeightOf(c, "humeur")), AbsQ(WeightOf(c, "sommeil"))),
         Plus(AbsQ(WeightOf(c, "stress")), AbsQ(WeightOf(c, "concentration"))))

\* The call of the specification's scenario: mood 7, sleep 6.5, stress 3,
\* focus 7.5, default weights, rounding and clamp.
IsExample(c) ==
    /\ c.d = [humeur |-> Q(7), sommeil |-> Half(13), stress |-> Q(3),
              concentration |-> Half(15)]
    /\ c.weights = {} /\ c.rounding = 2 /\ c.clamp_output

IsRounded(s, raw, digits) ==
    /\ (Pow10(digits) % s.den) = 0
    /\ Leq(Times(Q(2 * Pow10(digits)), AbsQ(Plus(s, Times(Q(0 - 1), raw)))), Q(1))

\* C18 (ScoreSpec): with clamp_output the score is within 0..10 whatever
\* the weights and the rounding; without it the score is the rounded raw.
ClampLaw ==
    (Completed("compute_scj") /\ out.ret.kind = "ok") =>
        IF out.call.clamp_output
          THEN Leq(Q(0), out.ret.value.scj) /\ Leq(out.ret.value.scj, Q(10))
          ELSE IsRounded(out.ret.value.scj, out.ret.value.raw, out.call.rounding)

\* C18 witness: with all the weight on 12 hours of sleep and no clamp the
\* score is 12.
UnclampedTwelve ==
    /\ Completed("compute_scj") /\ out.ret.kind = "ok"
    /\ ~out.call.clamp_output /\ out.call.weights = {SleepOnly}
    /\ out.ret.value.scj = Q(12)

\* C19 (ScoreSpec): a call with the metrics and the weights of the call
\* before it, whatever its rounding and clamp flag, returns the same raw.
RawIndependentOfDisplay ==
    [][(Completed("compute_scj")' /\ out'.ret.kind = "ok" /\ out'.call.after = "same") =>
          out'.ret.value.raw = out.ret.value.raw]_vars

\* C19 witness: a call repeating the metrics and weights of the call before
\* returned a raw above 10 beside a clamped score.
RawKeptBesideClampedScore ==
    /\ Completed("compute_scj") /\ out.ret.kind = "ok" /\ out.call.after = "same"
    /\ out.call.clamp_output
    /\ ~Leq(out.ret.value.raw, Q(10)) /\ out.ret.value.scj = Q(10)

\* C20 (ScoreSpec): under the default weights and the same rounding and
\* clamp flag, a call that differs from the call before it only by a
\* concentration at least as high returns a score at least as high, and one
\* that differs only by a stress at least as high returns a score at most
\* as high.
ScoreMonotone ==
    [][(Completed("compute_scj")' /\ out'.ret.kind = "ok") =>
          /\ out'.call.after = "focus" =>
                 Leq(out.ret.value.scj, out'.ret.value.scj)
          /\ out'.call.after = "stress" =>
                 Leq(out'.ret.value.scj, out.ret.value.scj)]_vars

\* C20 witness: a call has followed one with less stress and returned.
StressRaised ==
    /\ Completed("compute_scj") /\ out.ret.kind = "ok" /\ out.call.after = "stress"
    /\ out.call.d.stress = Q(10)

\* Two calls of compute_scj were given the same arguments.
SameArguments(c1, c2) ==
    /\ c1.d = c2.d
    /\ c1.weights = c2.weights
    /\ c1.rounding = c2.rounding
    /\ c1.clamp_output = c2.clamp_output

\* C21 (DetSpec): compute_scj is deterministic and stateless.  A call
\* returns what a call with the same metrics, weights, rounding and
\* clamp_output returned when its caller kept that result, whatever was
\* called in between; and no call changes DEFAULT_WEIGHTS or the mapping
\* its caller passed.
ComputeDeterministic ==
    /\ dicts.DEFAULT_WEIGHTS = DEFAULT_WEIGHTS
    /\ Completed("compute_scj") =>
          /\ dicts.weights = out.call.weights
          /\ (kept # NoOut /\ SameArguments(out.call, kept.call)) => out.ret = kept.ret

\* C21 witness: a call with custom weights repeated a call whose result
\* was kept, and returned the same.
ComputedAgain ==
    /\ Completed("compute_scj")
    /\ kept # NoOut
    /\ SameArguments(out.call, kept.call)
    /\ out.call.weights = {CustomWeights}
    /\ out.ret = kept.ret
    /\ out.ret.kind = "ok"

\* C22 (InterpretSpec): interpret_scj never fails and returns the message
\* of the first tier reached, highest first: at least 8.5, 7.0, 5.5, 4.0,
\* else; a threshold belongs to the higher tier, a score under 0 gets the
\* bottom message and a score over 10 the top one.
InterpretTiers ==
    Completed("interpret_scj") =>
        LET s == out.call.scj
            t == IF Leq(Half(17), s) THEN 1
                 ELSE IF Leq(Q(7), s) THEN 2
                 ELSE IF Leq(Half(11), s) THEN 3
                 ELSE IF Leq(Q(4), s) THEN 4
                 ELSE 5
        IN /\ out.ret = Ok(Tier(t))
           /\ s = Half(17) => out.ret.value = Tier(1)
           /\ s = Q(4) => out.ret.value = Tier(4)
           /\ (s.num < 0) => out.ret.value = Tier(5)
           /\ (s.num > 10 * s.den) => out.ret.value = Tier(1)

\* C22 witness: the score 8.5 was interpreted as top tier.
InterpretedThreshold ==
    /\ Completed("interpret_scj")
    /\ out.call.scj = Half(17)
    /\ out.ret = Ok(Tier(1))

\* Every entry of the mapping passed is zero (so for the empty mapping).
AllZero(weights) == \A w \in weights : \A k \in DOMAIN w : w[k] = Q(0)

\* C23 (WeightSpec): when every weight is zero, or the mapping is empty,
\* compute_scj divides by 1 and returns a raw score and a score of 0 for
\* every valid metrics value.
ZeroWeightsScoreZero ==
    (Completed("compute_scj") /\ out.call.weights # {} /\ AllZero(out.call.weights)) =>
        /\ out.ret.kind = "ok"
        /\ out.ret.value.raw = Q(0)
        /\ out.ret.value.scj = Q(0)

\* C23 witness: metrics other than zero were scored with the empty mapping.
EmptyWeightsScored ==
    /\ Completed("compute_scj")
    /\ out.call.weights = {EmptyWeights}
    /\ out.call.d.humeur = Q(7)
    /\ out.ret.value.scj = Q(0)

\* C24 (SeqSpec), the claim as stated: upsert overwrites every mutable
\* field: after an upsert that passes no interpretation, the record stored
\* has no interpretation.
UpsertClearsAnnotation ==
    (/\ Completed("upsert") /\ out.ret.kind = "ok"
     /\ "interpretation" \notin DOMAIN out.call.fields)
    => \A r \in RowsOf(records, out.call.user_id, out.call.date) :
           r.interpretation = None

\* Record r holds metrics in their domains and the score compute_scj gives
\* for them under the default settings.
Consistent(r) ==
    /\ \A f \in MetricNames : InDomain(f, r[f])
    /\ r.scj = ScoreResult(DailyInput(r.humeur, r.sommeil, r.stress, r.concentration),
                           DEFAULT_WEIGHTS, 2, TRUE).scj
    /\ Leq(Q(0), r.scj) /\ Leq(r.scj, Q(10))

\* C25 (WorkflowSpec): every record stored through the form or the seed
\* script is consistent: its metrics lie in their domains and its score is
\* the one compute_scj gives, with the default settings, for the metrics
\* stored, hence within 0..10; a submission with invalid metrics writes
\* nothing.
WorkflowConsistent ==
    [][/\ \A r \in records' : Consistent(r)
       /\ (out'.ret.kind = "raise" /\ out'.ret.exc = "InputValidationError")
            => /\ records' = records
               /\ pc'[out'.proc] = "idle" /\ lock' = lock]_vars

\* C25 witness: a day already stored was submitted again with other
\* metrics, and the record holds the new, clamped score.
Resubmitted ==
    /\ Completed("upsert") /\ out.call.found /\ out.call.flushes = 1
    /\ out.ret.kind = "ok"
    /\ out.ret.value.stress = Q(10) /\ out.ret.value.scj = Q(0)
    /\ out.ret.value \in records

\* C26 (Spec), the claim as stated: of two adds for the same key that
\* interleave while no record exists, the one that does not create the row
\* fails with the duplicate error, the ValueError a sequential second add
\* gets.
RacingAddGetsValueError ==
    (/\ Completed("add") /\ ~out.call.found
     /\ out.ret.kind = "raise"
     /\ RowsOf(records, out.call.user_id, out.call.date) # {})
    => Raised("ValueError")

\* C27 (Spec), the claim as stated: of two deletes of the same key that
\* interleave, at most one returns True: a delete returns True only when
\* it removed the record of its key.
DeleteTrueOnlyForRemover ==
    [][(Completed("delete")' /\ out'.ret = Ok(TRUE)) =>
        LET c == out'.call
        IN /\ RowsOf(records, c.user_id, c.date) # {}
           /\ RowsOf(records', c.user_id, c.date) = {}]_vars

\* C28 (FrameSpec), the claim as stated: a step of add, upsert or delete
\* for a key changes no record of another key; a read changes no record; a
\* record stays in the store until a delete of its own key.
FrameKept ==
    [][records' # records =>
        LET c == out'.call
        IN /\ c.op \in {"add", "upsert", "delete"}
           /\ \A r \in (records \ records') \cup (records' \ records) :
                  r.user_id = c.user_id /\ r.date = c.date
           /\ (\E r \in records : RowsOf(records', r.user_id, r.date) = {})
                  => c.op = "delete"]_vars

\* The mapping a call of compute_scj worked with.
Passed(c) == IF c.weights = {} THEN DEFAULT_WEIGHTS ELSE CHOOSE w \in c.weights : TRUE

\* C29 (WeightSpec), the claim as stated: an entry of the weight mapping
\* whose key names no metric has no effect: a call with the mapping
\* extended by such an entry returns the raw score and the score of the
\* call before it, made with the same metrics and settings and the mapping
\* alone.
ForeignKeyIgnored ==
    [][(/\ out.call.op = "compute_scj" /\ out.ret.kind = "ok"
        /\ out'.call.op = "compute_scj" /\ out'.ret.kind = "ok"
        /\ out'.call.d = out.call.d
        /\ out'.call.clamp_output = out.call.clamp_output
        /\ out'.call.weights = {Extended(Passed(out.call))})
       => /\ out'.ret.value.raw = out.ret.value.raw
          /\ out'.ret.value.scj = out.ret.value.scj]_vars

\* At most one user is stored per normalized email.
OneUserPerEmail ==
    \A u1, u2 \in users : Normalized(u1.email) = Normalized(u2.email) => u1 = u2

\* get_or_create returns the user stored under the email it was given.
GetOrCreateReturnsUser ==
    Completed("get_or_create") =>
        \A u \in users : u.email = Normalized(out.call.email) => out.ret = Ok(u)

\* C30 (UserSpec), the claim as stated: at most one user exists per
\* normalized email, and get_or_create returns the user of its email
\* without failing, also when the user was created while it ran.
GetOrCreateContract ==
    /\ OneUserPerEmail
    /\ GetOrCreateReturnsUser

=============================================================================
